---- MODULE Spec2Model ----
(***************************************************************************)
(* Shape- and step-level model of quantum_transformers/transformers.py.    *)
(*                                                                         *)
(* A tensor is represented by its shape (a sequence of naturals).  A call  *)
(* of a module is represented by a record                                  *)
(*     [err, shape, log]                                                   *)
(* where err is "none" or the failure that aborted the call, shape is the  *)
(* shape of x when the call ended, and log is the sequence of computation  *)
(* steps performed so far, in program order.  Every step records the       *)
(* operation, the place of the call graph it belongs to, the variant       *)
(* (classical / quantum projection, deterministic / stochastic dropout,    *)
(* in-range / out-of-range lookup), a number (features, qubits, dropout    *)
(* mask id) and the shape of the tensor it produced.  All operations but   *)
(* a stochastic dropout are functions of parameters and input, so the log  *)
(* determines the numeric output for fixed parameters and input.           *)
(***************************************************************************)
EXTENDS Integers, Sequences, FiniteSets, TLC

\* ------------------------------------------------------------------ bounds
MaxBatch == 2
MaxSeq == 3
MaxBlocks == 1
MaxWidth == 3

Batches == 1..MaxBatch
SeqLens == 1..MaxSeq
BlockCounts == 0..MaxBlocks
Widths == 2..MaxWidth
MlpWidths == {2, 3}
HeadCounts == {1, 2}
\* one class count that no other dimension of the model takes
ClassCounts == {5}
\* dropout rates in tenths: 0.0 (Transformer's default) and 0.1 (VisionTransformer's)
DropoutRates == {0, 1}
TokenCounts == {2}
SeqLimits == {2}
TokenIndices == 0..2
PatchSizes == {2, 7}
ImageDims == {3, 28}
\* the caller's random stream for the 'dropout' collection
Seeds == {1, 2}

\* ------------------------------------------------------------ tensor helpers
RECURSIVE Prod(_)
Prod(s) == IF s = <<>> THEN 1 ELSE Head(s) * Prod(Tail(s))

Step(op, site, variant, n, shape) ==
    [op |-> op, site |-> site, variant |-> variant, n |-> n, shape |-> shape]

Input(shape) == [err |-> "none", shape |-> shape, log |-> <<>>]

\* one computation step applied to x; an earlier failure propagates (exception)
Do(r, op, site, variant, n, shape) ==
    IF r.err # "none" THEN r
    ELSE [err |-> "none", shape |-> shape,
          log |-> Append(r.log, Step(op, site, variant, n, shape))]

Raise(r, e) == IF r.err # "none" THEN r ELSE [r EXCEPT !.err = e]

WithLast(shape, w) == [shape EXCEPT ![Len(shape)] = w]

\* ------------------------------------------------------------ leaf layers
\* nn.Dense(features)(x)
Dense(r, site, features) ==
    Do(r, "Dense", site, "classical", features, WithLast(r.shape, features))

\* QuantumLayer(num_qubits, circuit)(x): (..., num_qubits) -> (..., num_qubits)
QuantumLayer(r, site, num_qubits) ==
    IF r.err # "none" THEN r
    ELSE IF r.shape[Len(r.shape)] # num_qubits THEN Raise(r, "QuantumWidthError")
    ELSE Do(r, "QuantumLayer", site, "quantum", num_qubits, r.shape)

\* nn.Dropout(rate)(x, deterministic): the identity when rate = 0 or deterministic
Dropout(r, site, rate, deterministic, rng) ==
    Do(r, "Dropout", site,
       IF deterministic THEN "deterministic" ELSE "stochastic",
       IF deterministic \/ rate = 0 THEN 0 ELSE rng,
       r.shape)

LayerNorm(r, site) == Do(r, "LayerNorm", site, "classical", 0, r.shape)

\* nn.Embed(num_embeddings, features)(indices): the lookup is jnp.take / indexing,
\* which raises nothing for an index >= num_embeddings (the row is clamped or NaN-filled)
Embed(r, site, num_embeddings, features, max_index, out_shape) ==
    Do(r, "Embed", site,
       IF max_index >= num_embeddings THEN "out_of_range" ELSE "in_range",
       features, out_shape)

\* ------------------------------------------------------------ attention
HeadCheck_NoDivisibility(r, embed_dim, num_heads) ==
    IF r.err # "none" THEN r
    ELSE IF r.shape[3] # embed_dim THEN Raise(r, "EmbedDimMismatch")
    ELSE r

HeadCheck(r, embed_dim, num_heads) ==
    IF r.err # "none" THEN r
    ELSE IF r.shape[3] # embed_dim THEN Raise(r, "EmbedDimMismatch")
    ELSE IF r.shape[3] % num_heads # 0 THEN Raise(r, "HeadDivisibility")
    ELSE r

Projection(r, site, embed_dim, quantum_attn_circuit) ==
    IF quantum_attn_circuit
    THEN QuantumLayer(r, site, embed_dim)
    ELSE Dense(r, site, embed_dim)

OutProjection_AlwaysDense(r, embed_dim, quantum_attn_circuit) ==
    Dense(r, "attn_out", embed_dim)

OutProjection(r, embed_dim, quantum_attn_circuit) ==
    IF quantum_attn_circuit
    THEN QuantumLayer(r, "attn_out", embed_dim)
    ELSE Dense(r, "attn_out", embed_dim)

MultiHeadSelfAttention(r, embed_dim, num_heads, dropout, deterministic, quantum_attn_circuit, rng) ==
    LET c == HeadCheck(r, embed_dim, num_heads)
        B == r.shape[1]
        S == r.shape[2]
        q == Projection(c, "attn_q", embed_dim, quantum_attn_circuit)
        k == Projection(q, "attn_k", embed_dim, quantum_attn_circuit)
        v == Projection(k, "attn_v", embed_dim, quantum_attn_circuit)
        logits == Do(v, "ScaledDotProduct", "attn", "classical", num_heads,
                     <<B, num_heads, S, S>>)
        attn == Do(logits, "Softmax", "attn", "classical", 0, <<B, num_heads, S, S>>)
        drop == Dropout(attn, "attn_weights", dropout, deterministic, rng)
        values == Do(drop, "ApplyAttention", "attn", "classical", 0, <<B, S, embed_dim>>)
    IN  OutProjection(values, embed_dim, quantum_attn_circuit)

\* ------------------------------------------------------------ feed-forward
FeedForward_QuantumInPlace(r, hidden_size, mlp_hidden_size, dropout, deterministic, quantum_mlp_circuit, rng) ==
    LET e == IF quantum_mlp_circuit
             THEN QuantumLayer(r, "mlp_quantum", mlp_hidden_size)
             ELSE Dense(r, "mlp_expand", mlp_hidden_size)
        d == Dropout(e, "mlp", dropout, deterministic, rng)
        g == Do(d, "GELU", "mlp", "classical", 0, d.shape)
    IN  Dense(g, "mlp_contract", hidden_size)

FeedForward_DropoutLast(r, hidden_size, mlp_hidden_size, dropout, deterministic, quantum_mlp_circuit, rng) ==
    LET e == Dense(r, "mlp_expand", mlp_hidden_size)
        u == IF quantum_mlp_circuit
             THEN QuantumLayer(e, "mlp_quantum", mlp_hidden_size)
             ELSE e
        g == Do(u, "GELU", "mlp", "classical", 0, u.shape)
        d == Dropout(g, "mlp", dropout, deterministic, rng)
    IN  Dense(d, "mlp_contract", hidden_size)

FeedForward(r, hidden_size, mlp_hidden_size, dropout, deterministic, quantum_mlp_circuit, rng) ==
    LET e == Dense(r, "mlp_expand", mlp_hidden_size)
        u == IF quantum_mlp_circuit
             THEN QuantumLayer(e, "mlp_quantum", mlp_hidden_size)
             ELSE e
        d == Dropout(u, "mlp", dropout, deterministic, rng)
        g == Do(d, "GELU", "mlp", "classical", 0, d.shape)
    IN  Dense(g, "mlp_contract", hidden_size)

\* FeedForward.dropout: float = 0.0, the rate TransformerBlock leaves unset
FeedForwardDefaultDropout == 0

\* ------------------------------------------------------------ block
TransformerBlock(r, hidden_size, num_heads, mlp_hidden_size, dropout, deterministic, quantum_attn_circuit, quantum_mlp_circuit, rng) ==
    LET n1 == LayerNorm(r, "block_norm1")
        a == MultiHeadSelfAttention(n1, hidden_size, num_heads, dropout, deterministic,
                                    quantum_attn_circuit, rng)
        ad == Dropout(a, "post_attn", dropout, deterministic, rng)
        x1 == Do(ad, "Add", "attn_residual", "classical", 0, r.shape)
        n2 == LayerNorm(x1, "block_norm2")
        f == FeedForward(n2, hidden_size, mlp_hidden_size, FeedForwardDefaultDropout,
                         deterministic, quantum_mlp_circuit, rng)
        fd == Dropout(f, "post_mlp", dropout, deterministic, rng)
    IN  Do(fd, "Add", "mlp_residual", "classical", 0, x1.shape)

\* deterministic = not train (lines 120, 129, 195, 205)
Deterministic_Train(train) == train

Deterministic(train) == ~train

\* for _ in range(num_transformer_blocks): x = TransformerBlock(...)(x, ...)
RECURSIVE Blocks(_, _, _, _, _)
Blocks(r, n, cfg, args, rng) ==
    IF n = 0 \/ r.err # "none" THEN r
    ELSE Blocks(TransformerBlock(r, cfg.hidden_size, cfg.num_heads, cfg.mlp_hidden_size,
                                 cfg.dropout, Deterministic(args.train),
                                 args.quantum_attn_circuit, args.quantum_mlp_circuit, rng),
                n - 1, cfg, args, rng)

\* ------------------------------------------------------------ Transformer
\* args.x = (batch, seq_len) is the shape of the token tensor, args.max_token its
\* largest entry
Transformer(cfg, args, rng) ==
    LET B == args.x[1]
        S == args.x[2]
        tok == Embed(Input(args.x), "token", cfg.num_tokens, cfg.hidden_size,
                     args.max_token, <<B, S, cfg.hidden_size>>)
        pos == Embed(tok, "position", cfg.max_seq_len, cfg.hidden_size,
                     S - 1, <<S, cfg.hidden_size>>)
        sum == Do(pos, "Add", "position", "classical", 0, <<B, S, cfg.hidden_size>>)
        drop == Dropout(sum, "embed", cfg.dropout, Deterministic(args.train), rng)
        blocks == Blocks(drop, cfg.num_transformer_blocks, cfg, args, rng)
        norm == LayerNorm(blocks, "final_norm")
        pool == Do(norm, "Mean", "pool", "classical", 0, <<B, cfg.hidden_size>>)
    IN  Dense(pool, "head", cfg.num_classes)

\* ------------------------------------------------------------ VisionTransformer
\* x.transpose(perm): axis i of the result is axis perm[i] of the input (0-based)
Transpose(shape, perm) == [i \in 1..Len(shape) |-> shape[perm[i] + 1]]

\* the permutation of line 161
ChannelsFirstPerm == <<0, 3, 1, 2>>

\* output positions along one axis of nn.Conv(kernel_size=k, strides=s, padding="VALID")
ConvOut(n, k, s) == IF n < k THEN 0 ELSE ((n - k) \div s) + 1

NumSteps_Ceil(img_size, patch_size) ==
    ((img_size + patch_size - 1) \div patch_size) * ((img_size + patch_size - 1) \div patch_size)

\* num_steps = (img_size // self.patch_size) ** 2
NumSteps(img_size, patch_size) == (img_size \div patch_size) * (img_size \div patch_size)

\* jnp.reshape(x, shape): fails unless the element counts agree
Reshape(r, site, shape) ==
    IF r.err # "none" THEN r
    ELSE IF Prod(r.shape) # Prod(shape) THEN Raise(r, "ReshapeError")
    ELSE Do(r, "Reshape", site, "classical", 0, shape)

\* x += pos_embedding of shape (1, num_steps, hidden_size): broadcast along axis 1
AddPosEmbedding(r, num_steps, hidden_size) ==
    IF r.err # "none" THEN r
    ELSE IF r.shape[2] # num_steps /\ r.shape[2] # 1 /\ num_steps # 1
         THEN Raise(r, "BroadcastError")
    ELSE Do(r, "Add", "pos_embedding", "classical", num_steps,
            <<r.shape[1], IF r.shape[2] = 1 THEN num_steps ELSE r.shape[2], hidden_size>>)

VisionTransformer(cfg, args, rng) ==
    IF Len(args.x) # 4 THEN Raise(Input(args.x), "NotFourDimensional")
    ELSE
    LET x0 == Input(args.x)
        x1 == IF ~cfg.channels_last
              THEN Do(x0, "Transpose", "layout", "classical", 0,
                      Transpose(args.x, ChannelsFirstPerm))
              ELSE x0
        batch_size == x1.shape[1]
        height == x1.shape[2]
        width == x1.shape[3]
    IN  IF height # width THEN Raise(x1, "NotSquare")
        ELSE
        LET num_steps == NumSteps(height, cfg.patch_size)
            conv == Do(x1, "Conv", "patch", "classical", cfg.hidden_size,
                       <<batch_size, ConvOut(height, cfg.patch_size, cfg.patch_size),
                         ConvOut(width, cfg.patch_size, cfg.patch_size), cfg.hidden_size>>)
            seq == Reshape(conv, "patch", <<batch_size, num_steps, cfg.hidden_size>>)
            tokd == IF cfg.classifier = "token"
                    THEN Do(seq, "Concatenate", "cls", "classical", 0,
                            <<batch_size, num_steps + 1, cfg.hidden_size>>)
                    ELSE seq
            positions == IF cfg.classifier = "token" THEN num_steps + 1 ELSE num_steps
            pos == AddPosEmbedding(tokd, positions, cfg.hidden_size)
            drop == Dropout(pos, "embed", cfg.dropout, Deterministic(args.train), rng)
            blocks == Blocks(drop, cfg.num_transformer_blocks, cfg, args, rng)
            norm == LayerNorm(blocks, "final_norm")
            pool == IF cfg.classifier = "token"
                    THEN Do(norm, "TakeFirst", "pool", "classical", 0,
                            <<batch_size, cfg.hidden_size>>)
                    ELSE Do(norm, "Mean", "pool", "classical", 0,
                            <<batch_size, cfg.hidden_size>>)
        IN  Dense(pool, "head", cfg.num_classes)

\* ------------------------------------------------------------ state machine
VARIABLES
    kind,   \* the model class constructed: "Transformer" or "VisionTransformer"
    cfg,    \* the module's dataclass fields, set at construction
    pc,     \* "constructed", "called" (one call ended), "repeated" (the same call again)
    args,   \* the arguments of the last call
    out,    \* the result of the last call
    out2    \* the result of repeating the last call with the same parameters and input

vars == <<kind, cfg, pc, args, out, out2>>

NoArgs == [x |-> <<>>, max_token |-> 0, train |-> FALSE,
           quantum_attn_circuit |-> FALSE, quantum_mlp_circuit |-> FALSE]
NoOut == [err |-> "not_called", shape |-> <<>>, log |-> <<>>]

TransformerConfigs ==
    [num_tokens : TokenCounts, max_seq_len : SeqLimits, num_classes : ClassCounts,
     hidden_size : Widths, num_heads : HeadCounts, num_transformer_blocks : BlockCounts,
     mlp_hidden_size : MlpWidths, dropout : DropoutRates,
     patch_size : {0}, channels_last : {TRUE}, classifier : {"none"}]

VisionTransformerConfigs ==
    [num_tokens : {0}, max_seq_len : {0}, num_classes : ClassCounts,
     hidden_size : Widths, num_heads : HeadCounts, num_transformer_blocks : BlockCounts,
     mlp_hidden_size : MlpWidths, dropout : DropoutRates,
     patch_size : PatchSizes, channels_last : BOOLEAN, classifier : {"token", "gap"}]

TokenInputs == {<<b, s>> : b \in Batches, s \in SeqLens}

ImageInputs ==
    {<<b, d1, d2, d3>> : b \in Batches, d1 \in ImageDims, d2 \in ImageDims, d3 \in ImageDims}
    \cup {<<b, 3, 3>> : b \in Batches}
    \cup {<<b, 3, 3, 3, 3>> : b \in Batches}

Init ==
    /\ kind \in {"Transformer", "VisionTransformer"}
    /\ cfg \in IF kind = "Transformer" THEN TransformerConfigs ELSE VisionTransformerConfigs
    /\ pc = "constructed"
    /\ args = NoArgs
    /\ out = NoOut
    /\ out2 = NoOut

Forward(a, rng) ==
    IF kind = "Transformer" THEN Transformer(cfg, a, rng) ELSE VisionTransformer(cfg, a, rng)

CallTransformer ==
    /\ kind = "Transformer"
    /\ pc = "constructed"
    /\ \E x \in TokenInputs, t \in TokenIndices, train \in BOOLEAN,
          qa \in BOOLEAN, qm \in BOOLEAN, rng \in Seeds :
          /\ args' = [x |-> x, max_token |-> t, train |-> train,
                      quantum_attn_circuit |-> qa, quantum_mlp_circuit |-> qm]
          /\ out' = Transformer(cfg, args', rng)
    /\ pc' = "called"
    /\ UNCHANGED <<kind, cfg, out2>>

CallVisionTransformer ==
    /\ kind = "VisionTransformer"
    /\ pc = "constructed"
    /\ \E x \in ImageInputs, train \in BOOLEAN,
          qa \in BOOLEAN, qm \in BOOLEAN, rng \in Seeds :
          /\ args' = [x |-> x, max_token |-> 0, train |-> train,
                      quantum_attn_circuit |-> qa, quantum_mlp_circuit |-> qm]
          /\ out' = VisionTransformer(cfg, args', rng)
    /\ pc' = "called"
    /\ UNCHANGED <<kind, cfg, out2>>

\* the same call again: same instance, parameters, input and arguments, whatever
\* random stream the caller passes
Repeat ==
    /\ pc = "called"
    /\ \E rng \in Seeds : out2' = Forward(args, rng)
    /\ pc' = "repeated"
    /\ UNCHANGED <<kind, cfg, args, out>>

\* the next call on the same instance and input, with other circuits supplied
CallWithOtherCircuits ==
    /\ pc = "called"
    /\ \E qa \in BOOLEAN, qm \in BOOLEAN, rng \in Seeds :
          /\ <<qa, qm>> # <<args.quantum_attn_circuit, args.quantum_mlp_circuit>>
          /\ args' = [args EXCEPT !.quantum_attn_circuit = qa, !.quantum_mlp_circuit = qm]
          /\ out' = Forward(args', rng)
    /\ UNCHANGED <<kind, cfg, pc, out2>>

Next == CallTransformer \/ CallVisionTransformer \/ Repeat \/ CallWithOtherCircuits

Spec == Init /\ [][Next]_vars

\* ------------------------------------------------------------ reading a call
Called == pc # "constructed"

Ops(log) == [i \in 1..Len(log) |-> log[i].op]

StepsAt(log, sites) ==
    LET Here(s) == s.site \in sites IN SelectSeq(log, Here)

AttnProjectionSites == {"attn_q", "attn_k", "attn_v", "attn_out"}
AttnSites == AttnProjectionSites \cup {"attn", "attn_weights"}
MlpSites == {"mlp_expand", "mlp_quantum", "mlp", "mlp_contract"}
ShapeErrors == {"NotFourDimensional", "NotSquare"}

\* the feed-forward sublayer of some block has been entered
FeedForwardReached(o) == \E i \in 1..Len(o.log) : o.log[i].site = "block_norm2"

\* the image height and width in the layout the configuration declares
DeclaredHeight == IF cfg.channels_last THEN args.x[2] ELSE args.x[3]
DeclaredWidth == IF cfg.channels_last THEN args.x[3] ELSE args.x[4]
DeclaredChannels == IF cfg.channels_last THEN args.x[4] ELSE args.x[2]

ValidHeads == cfg.hidden_size % cfg.num_heads = 0

\* ------------------------------------------------------------ claims
\* C1: every call on a valid configuration and a valid input (tokens in range and
\* seq_len <= max_seq_len for Transformer; a 4-D square image in the declared layout
\* for VisionTransformer) returns a tensor of shape (batch, num_classes), with or
\* without quantum circuits.
C1_OutputShape ==
    (/\ Called
     /\ ValidHeads
     /\ kind = "Transformer" =>
            args.x[2] <= cfg.max_seq_len /\ args.max_token < cfg.num_tokens
     /\ kind = "VisionTransformer" =>
            Len(args.x) = 4 /\ DeclaredHeight = DeclaredWidth)
    => (out.err = "none" /\ out.shape = <<args.x[1], cfg.num_classes>>)

\* C3: with channels_last = false, the (batch, C, H, W) input becomes (batch, H, W, C)
\* before patchification.
C3_ChannelsLastLayout ==
    (Called /\ kind = "VisionTransformer" /\ ~cfg.channels_last /\ Len(args.x) = 4)
    => (/\ out.log # <<>>
        /\ out.log[1].op = "Transpose"
        /\ out.log[1].shape = <<args.x[1], args.x[3], args.x[4], args.x[2]>>)

C8_IndexFailure ==
    (/\ Called
     /\ kind = "Transformer"
     /\ (args.max_token >= cfg.num_tokens \/ args.x[2] > cfg.max_seq_len))
    => out.err = "IndexError"

\* C2 as stated: whenever hidden_size % num_heads # 0 the call fails with the
\* head-divisibility error before any computation step has been performed.
C2_FailsBeforeAnyStep ==
    (Called /\ ~ValidHeads /\ out.err \notin ShapeErrors)
    => (out.err = "HeadDivisibility" /\ out.log = <<>>)

\* C2, amended: whenever hidden_size % num_heads # 0, no step of any attention
\* sublayer is ever performed; a call with at least one block that passes the vision
\* shape checks fails with the head-divisibility assertion right after the first
\* block's first LayerNorm, the embedding stage (lookups or patch convolution,
\* positional add, dropout) having been performed; with no block the call succeeds.
C2_HeadDivisibility ==
    (Called /\ ~ValidHeads /\ out.err \notin ShapeErrors)
    => /\ \A i \in 1..Len(out.log) : out.log[i].site \notin AttnSites
       /\ cfg.num_transformer_blocks = 0 => out.err = "none"
       /\ cfg.num_transformer_blocks >= 1 =>
            /\ out.err = "HeadDivisibility"
            /\ Len(out.log) >= 3
            /\ out.log[Len(out.log)].site = "block_norm1"
            /\ out.log[Len(out.log) - 1] =
                 Step("Dropout", "embed",
                      IF args.train THEN "stochastic" ELSE "deterministic",
                      out.log[Len(out.log) - 1].n, out.shape)
            /\ kind = "Transformer" =>
                 Ops(out.log) = <<"Embed", "Embed", "Add", "Dropout", "LayerNorm">>
            /\ kind = "VisionTransformer" =>
                 \E i \in 1..Len(out.log) : out.log[i].op = "Conv"

C2_Witness ==
    /\ Called
    /\ ~ValidHeads
    /\ cfg.num_transformer_blocks >= 1
    /\ out.err = "HeadDivisibility"
    /\ Len(out.log) >= 5

\* C5: in evaluation mode (train = false) every dropout of the call graph receives
\* deterministic = true and applies no mask, and repeating the call with the same
\* parameters and input gives the identical result whatever random stream is passed,
\* for every configured dropout rate.
C5_EvalDeterminism ==
    /\ (Called /\ ~args.train) =>
          \A i \in 1..Len(out.log) :
              out.log[i].op = "Dropout" =>
                  (out.log[i].variant = "deterministic" /\ out.log[i].n = 0)
    /\ (pc = "repeated" /\ ~args.train) => out2 = out

C5_Witness ==
    /\ pc = "repeated"
    /\ ~args.train
    /\ cfg.dropout > 0
    /\ cfg.num_transformer_blocks >= 1
    /\ out.err = "none"
    /\ out2 = out
    /\ Len(StepsAt(out.log, {"embed", "attn_weights", "post_attn", "mlp", "post_mlp"}))
         >= 5

\* C6 as stated: a call that evaluates the feed-forward sublayer with a quantum MLP
\* circuit and mlp_hidden_size # hidden_size fails with a quantum-width error.
C6_QuantumMlpRejected ==
    (/\ Called
     /\ args.quantum_mlp_circuit
     /\ cfg.mlp_hidden_size # cfg.hidden_size
     /\ FeedForwardReached(out))
    => out.err = "QuantumWidthError"

\* C6, amended: the quantum MLP layer has num_qubits = mlp_hidden_size and is applied
\* to the output of the classical expand map, whose width is mlp_hidden_size, so no
\* call fails with a quantum-width error and a call that evaluates the feed-forward
\* sublayer with a quantum MLP circuit succeeds, mlp_hidden_size = hidden_size or not.
C6_QuantumMlpWidth ==
    Called =>
        /\ out.err # "QuantumWidthError"
        /\ (args.quantum_mlp_circuit /\ FeedForwardReached(out)) =>
              /\ out.err = "none"
              /\ \A i \in 1..Len(out.log) :
                    out.log[i].site = "mlp_quantum" =>
                       /\ out.log[i].n = cfg.mlp_hidden_size
                       /\ out.log[i].shape[3] = cfg.mlp_hidden_size
                       /\ i > 1
                       /\ out.log[i - 1].site = "mlp_expand"
                       /\ out.log[i - 1].shape = out.log[i].shape

C6_Witness ==
    /\ Called
    /\ args.quantum_mlp_circuit
    /\ cfg.mlp_hidden_size # cfg.hidden_size
    /\ out.err = "none"
    /\ \E i \in 1..Len(out.log) : out.log[i].site = "mlp_quantum"

\* the variants (classical, quantum) a call used at a projection site
VariantsAt(o, site) ==
    {o.log[i].variant : i \in {j \in 1..Len(o.log) : o.log[j].site = site}}

\* the variant of the feed-forward expand stage: quantum when a quantum layer ran in it
ExpandVariant(o) ==
    IF \E i \in 1..Len(o.log) : o.log[i].site = "mlp_quantum"
    THEN "quantum" ELSE "classical"

\* C7 as stated: two successive calls on one model instance that both return use the
\* same variant at every projection, whatever their arguments.
C7_VariantFixedAcrossCalls ==
    [][(pc = "called" /\ pc' = "called" /\ out.err = "none" /\ out'.err = "none")
       => /\ \A site \in AttnProjectionSites :
                VariantsAt(out', site) = VariantsAt(out, site)
          /\ ExpandVariant(out') = ExpandVariant(out)]_vars

\* C7, amended: the variant is selected by each call's arguments: in every call, all
\* query, key, value and output projections of every block are quantum if
\* quantum_attn_circuit is supplied and classical otherwise, a quantum layer runs in
\* the feed-forward expand stage exactly when quantum_mlp_circuit is supplied, and the
\* feed-forward contract map and the classification head are always classical.
C7_VariantPerCall ==
    Called =>
        /\ \A i \in 1..Len(out.log) :
              /\ out.log[i].site \in AttnProjectionSites =>
                    out.log[i].variant =
                        IF args.quantum_attn_circuit THEN "quantum" ELSE "classical"
              /\ out.log[i].site \in {"mlp_expand", "mlp_contract", "head"} =>
                    out.log[i].variant = "classical"
        /\ FeedForwardReached(out) =>
              (ExpandVariant(out) = "quantum" <=> args.quantum_mlp_circuit)

C7_Witness ==
    /\ Called
    /\ args.quantum_attn_circuit
    /\ ~args.quantum_mlp_circuit
    /\ out.err = "none"
    /\ VariantsAt(out, "attn_q") = {"quantum"}
    /\ VariantsAt(out, "attn_out") = {"quantum"}
    /\ ExpandVariant(out) = "classical"

\* C9: for every square image size and patch size, num_patches = (image_size //
\* patch_size)^2 equals the number of output positions of the patch convolution, the
\* reshape preserves the element count, and the sequence entering the blocks and the
\* positional embedding have length num_patches + 1 with 'token' and num_patches with
\* 'gap' (28 and 7 give 16 patches and 17 positions with 'token').
C9_PatchGrid ==
    (/\ Called
     /\ kind = "VisionTransformer"
     /\ Len(args.x) = 4
     /\ DeclaredHeight = DeclaredWidth
     /\ out.err \notin ShapeErrors)
    => LET conv == StepsAt(out.log, {"patch"})
           pos == StepsAt(out.log, {"pos_embedding"})
           emb == StepsAt(out.log, {"embed"})
           num_patches == (DeclaredHeight \div cfg.patch_size)
                            * (DeclaredHeight \div cfg.patch_size)
           extra == IF cfg.classifier = "token" THEN 1 ELSE 0
       IN  /\ out.err \notin {"ReshapeError", "BroadcastError"}
           /\ Ops(conv) = <<"Conv", "Reshape">>
           /\ conv[1].shape[2] * conv[1].shape[3] = num_patches
           /\ Prod(conv[1].shape) = Prod(conv[2].shape)
           /\ conv[2].shape = <<args.x[1], num_patches, cfg.hidden_size>>
           /\ Len(pos) = 1
           /\ pos[1].n = num_patches + extra
           /\ Len(emb) = 1
           /\ emb[1].shape = <<args.x[1], num_patches + extra, cfg.hidden_size>>
           /\ (DeclaredHeight = 28 /\ cfg.patch_size = 7) =>
                 (num_patches = 16 /\ (cfg.classifier = "token" => pos[1].n = 17))

C9_Witness ==
    /\ Called
    /\ kind = "VisionTransformer"
    /\ cfg.channels_last
    /\ cfg.classifier = "token"
    /\ cfg.patch_size = 7
    /\ args.x[2] = 28
    /\ args.x[3] = 28
    /\ out.err = "none"
    /\ StepsAt(out.log, {"pos_embedding"})[1].n = 17

RECURSIVE Repeated(_, _)
Repeated(seq, n) == IF n = 0 THEN <<>> ELSE seq \o Repeated(seq, n - 1)

\* the feed-forward steps of a call, as <<operation, site, number>>
MlpStages(o) ==
    LET m == StepsAt(o.log, MlpSites)
    IN  [i \in 1..Len(m) |-> <<m[i].op, m[i].site, m[i].n>>]

\* C10 as stated: with a quantum MLP circuit the expand stage is the quantum transform
\* in place of the classical affine map: no classical expand map is applied.
C10_QuantumReplacesExpand ==
    (Called /\ out.err = "none" /\ FeedForwardReached(out))
    => MlpStages(out) =
         Repeated(<<IF args.quantum_mlp_circuit
                    THEN <<"QuantumLayer", "mlp_quantum", cfg.mlp_hidden_size>>
                    ELSE <<"Dense", "mlp_expand", cfg.mlp_hidden_size>>,
                    <<"Dropout", "mlp", 0>>,
                    <<"GELU", "mlp", 0>>,
                    <<"Dense", "mlp_contract", cfg.hidden_size>>>>,
                  cfg.num_transformer_blocks)

\* C10, amended: the feed-forward sublayer always applies the classical affine map
\* hidden -> mlp_hidden first; with a quantum MLP circuit the quantum transform of
\* mlp_hidden qubits is applied to its output, in addition to it; then dropout (which
\* applies no mask: its rate is the default 0), GELU, and the classical contract map
\* mlp_hidden -> hidden, in this order, in every block.
C10_FeedForwardStages ==
    (Called /\ out.err = "none" /\ FeedForwardReached(out))
    => MlpStages(out) =
         Repeated(<<<<"Dense", "mlp_expand", cfg.mlp_hidden_size>>>>
                  \o (IF args.quantum_mlp_circuit
                      THEN <<<<"QuantumLayer", "mlp_quantum", cfg.mlp_hidden_size>>>>
                      ELSE <<>>)
                  \o <<<<"Dropout", "mlp", 0>>,
                       <<"GELU", "mlp", 0>>,
                       <<"Dense", "mlp_contract", cfg.hidden_size>>>>,
                  cfg.num_transformer_blocks)

C10_Witness ==
    /\ Called
    /\ args.quantum_mlp_circuit
    /\ args.train
    /\ cfg.dropout > 0
    /\ out.err = "none"
    /\ Len(MlpStages(out)) >= 5

====
